---- MODULE Spec2Model ----
(***************************************************************************)
(* Credential login and route protection of the admin dashboard:           *)
(*   src/app/(main)/auth/v1/login/actions.ts  loginSchema, loginAction,    *)
(*                                            LoginForm                    *)
(*   src/proxy.ts                             auth proxy handler, matcher  *)
(*   auth.config.ts (unnamed/part_000)        authorize, jwt, session      *)
(*   prisma/seed.ts (unnamed/part_001)        seeded admin record          *)
(*                                                                         *)
(* Strings are sequences of tokens.  A token is either one character       *)
(* ("/", "?", "=", "&", "+", " ", "@", "."), one percent escape ("%20",    *)
(* "%2F", ...) or a run of letters that no operation of the program ever   *)
(* splits ("dashboard", "login", "x", ...).                                *)
(***************************************************************************)
EXTENDS Integers, Sequences, FiniteSets, TLC

\* ------------------------------------------------------------------ bounds
MaxQueryLen == 2
MaxHops == 3

\* ------------------------------------------------------- generic sequences
RECURSIVE SeqsUpTo(_, _)
SeqsUpTo(S, n) ==
  IF n = 0 THEN {<<>>}
  ELSE LET shorter == SeqsUpTo(S, n - 1)
       IN  shorter \cup {Append(s, t) : s \in {q \in shorter : Len(q) = n - 1}, t \in S}

IndexOf(s, t) ==
  IF \E i \in 1..Len(s) : s[i] = t
  THEN CHOOSE i \in 1..Len(s) : s[i] = t /\ \A j \in 1..(i - 1) : s[j] # t
  ELSE 0

startsWith(s, prefix) ==
  /\ Len(s) >= Len(prefix)
  /\ SubSeq(s, 1, Len(prefix)) = prefix

RECURSIVE Split(_, _)
Split(s, sep) ==
  LET i == IndexOf(s, sep)
  IN  IF i = 0 THEN <<s>>
      ELSE <<SubSeq(s, 1, i - 1)>> \o Split(SubSeq(s, i + 1, Len(s)), sep)

RECURSIVE Join(_, _)
Join(parts, sep) ==
  IF parts = <<>> THEN <<>>
  ELSE IF Len(parts) = 1 THEN parts[1]
  ELSE parts[1] \o <<sep>> \o Join(Tail(parts), sep)

SelectNonEmpty(parts) == SelectSeq(parts, LAMBDA p : p # <<>>)

\* ------------------------------------------- application/x-www-form-urlencoded
\* Percent decoding of one token of an encoded string ("+" is a space).
urlDecodeTok(t) ==
  CASE t = "+"     -> " "
    [] t = "%20"   -> " "
    [] t = "%2F"   -> "/"
    [] t = "%3F"   -> "?"
    [] t = "%3D"   -> "="
    [] t = "%26"   -> "&"
    [] t = "%2B"   -> "+"
    [] t = "%253D" -> "%3D"
    [] t = "%2520" -> "%20"
    [] OTHER       -> t

\* Serialisation of one token of a decoded string.
urlEncodeTok(t) ==
  CASE t = " "   -> "+"
    [] t = "/"   -> "%2F"
    [] t = "?"   -> "%3F"
    [] t = "="   -> "%3D"
    [] t = "&"   -> "%26"
    [] t = "+"   -> "%2B"
    [] t = "%3D" -> "%253D"
    [] t = "%20" -> "%2520"
    [] OTHER     -> t

urlDecode(s) == [i \in 1..Len(s) |-> urlDecodeTok(s[i])]
urlEncode(s) == [i \in 1..Len(s) |-> urlEncodeTok(s[i])]

\* new URLSearchParams(query): the list of decoded (name, value) pairs.
parsePair(piece) ==
  LET i == IndexOf(piece, "=")
  IN  IF i = 0
      THEN [name |-> urlDecode(piece), value |-> <<>>]
      ELSE [name  |-> urlDecode(SubSeq(piece, 1, i - 1)),
            value |-> urlDecode(SubSeq(piece, i + 1, Len(piece)))]

searchParamsParse(query) ==
  LET pieces == SelectNonEmpty(Split(query, "&"))
  IN  [i \in 1..Len(pieces) |-> parsePair(pieces[i])]

serializePair(p) == urlEncode(p.name) \o <<"=">> \o urlEncode(p.value)

\* URLSearchParams.prototype.toString
searchParamsToString(params) ==
  Join([i \in 1..Len(params) |-> serializePair(params[i])], "&")

\* URLSearchParams.prototype.get: the first value of `name`, or null.
Null == [present |-> FALSE, value |-> <<>>]
Str(s) == [present |-> TRUE, value |-> s]

searchParamsGet(params, name) ==
  IF \E i \in 1..Len(params) : params[i].name = name
  THEN Str(params[CHOOSE i \in 1..Len(params) :
                    /\ params[i].name = name
                    /\ \A j \in 1..(i - 1) : params[j].name # name].value)
  ELSE Null

\* URLSearchParams.prototype.set on the empty list of a fresh URL.
searchParamsSet(name, value) == <<[name |-> name, value |-> value]>>

\* JavaScript `a || b` on string-or-null operands: null and "" are falsy.
OrElse(a, b) == IF a.present /\ a.value # <<>> THEN a.value ELSE b

\* ------------------------------------------------------------- route guard
LoginPath == <<"/", "auth", "/", "v1", "/", "login">>
DashboardPrefix == <<"/", "dashboard">>
DefaultLanding == <<"/", "dashboard", "/", "default">>

\* A matcher that names every path, "/:path*".
config_matcher_all(pathname) == startsWith(pathname, <<"/">>)

\* config.matcher ["/dashboard/:path*"]: the prefix segment, then zero or more
\* whole segments.
config_matcher(pathname) ==
  \/ pathname = DashboardPrefix
  \/ startsWith(pathname, DashboardPrefix \o <<"/">>)

NoToken == [present |-> FALSE]

\* A jwt callback that copies the id and forgets the role.
jwt_dropsRole(token, user) ==
  IF user.present THEN [token EXCEPT !.id = user.value.id] ELSE token

\* callbacks.jwt: on sign in (user given) the role and id are copied in.
jwt(token, user) ==
  IF user.present
  THEN [token EXCEPT !.role = user.value.role, !.id = user.value.id]
  ELSE token

\* callbacks.session: session.user gets role and id from the token.
session(sess, token) ==
  IF sess.present
  THEN [sess EXCEPT !.user = [name |-> sess.user.name, email |-> sess.user.email,
                               role |-> token.role, id |-> token.id]]
  ELSE sess

\* auth(): the session of the request's cookie, null without a cookie.
auth(cookie) ==
  IF cookie.present
  THEN LET token == jwt(cookie.token, [present |-> FALSE])
       IN  session([present |-> TRUE,
                    user |-> [name |-> token.name, email |-> token.email]], token)
  ELSE [present |-> FALSE]

Direct == [kind |-> "direct", location |-> [pathname |-> <<>>, search |-> <<>>]]
NextResponse_next == [kind |-> "next", location |-> [pathname |-> <<>>, search |-> <<>>]]
NextResponse_redirect(url) == [kind |-> "redirect", location |-> url]

\* The value the guard attaches as `from`.
fromOf(pathname, searchParams) ==
  LET search == searchParamsToString(searchParams)
  IN  pathname \o (IF search # <<>> THEN <<"?">> \o search ELSE <<>>)

\* export default auth((req) => ...)
proxy(request) ==
  LET pathname == request.pathname
      searchParams == searchParamsParse(request.search)
  IN  IF startsWith(pathname, DashboardPrefix) /\ ~request.auth.present
      THEN NextResponse_redirect(
             [pathname |-> LoginPath,
              search |-> searchParamsToString(
                           searchParamsSet(<<"from">>, fromOf(pathname, searchParams)))])
      ELSE NextResponse_next

\* The framework runs the proxy only on the paths the matcher names.
handle(request) ==
  IF config_matcher(request.pathname) THEN proxy(request) ELSE Direct

\* LoginForm: the hidden `from` field of the rendered form.
LoginForm(search) ==
  OrElse(searchParamsGet(searchParamsParse(search), <<"from">>), DefaultLanding)

\* ------------------------------------------------------ credential validator
PasswordMinLen == 6
SaltRounds == 12

Words == {"admin", "ghost", "example", "com"}

NoDoubleDot(s) == \A i \in 1..(Len(s) - 1) : ~(s[i] = "." /\ s[i + 1] = ".")

\* z.string().email(): a local part that neither starts nor ends with a dot
\* and has no two dots in a row, one "@", then dot-separated labels ending in
\* an alphabetic top-level label.
isEmail(s) ==
  LET at     == IndexOf(s, "@")
      local  == SubSeq(s, 1, at - 1)
      domain == SubSeq(s, at + 1, Len(s))
      labels == Split(domain, ".")
  IN  /\ at > 1
      /\ \A i \in 1..Len(local) : local[i] \in Words \cup {"."}
      /\ local[1] # "."
      /\ local[Len(local)] # "."
      /\ NoDoubleDot(s)
      /\ Len(labels) >= 2
      /\ \A i \in 1..Len(labels) : Len(labels[i]) = 1 /\ labels[i][1] \in Words

\* z.string(): null is not a string.
zEmail(v) == v.present /\ isEmail(v.value)
zPasswordMin(v) == v.present /\ Len(v.value) >= PasswordMinLen

\* loginSchema of the server action: email, password, optional string from.
loginSchema(data) == zEmail(data.email) /\ zPasswordMin(data.password)

\* schema of authorize: email and password only.
authorizeSchema(credentials) ==
  zEmail(credentials.email) /\ zPasswordMin(credentials.password)

\* ----------------------------------------------------------- password verifier
Salt == "salt"

\* bcrypt.hash(password, rounds): cost, salt and the salted digest.
bcrypt_hash(password, rounds) ==
  [cost |-> rounds, salt |-> Salt, digest |-> <<rounds, Salt, password>>]

\* bcrypt.compare(password, hash): rehash with the stored cost and salt.
bcrypt_compare(password, hash) ==
  <<hash.cost, hash.salt, password>> = hash.digest

\* ----------------------------------------------------------------- user store
AdminEmail == <<"admin", "@", "example", ".", "com">>
GhostEmail == <<"ghost", "@", "example", ".", "com">>
Admin123 == <<"a", "d", "m", "i", "n", "1", "2", "3">>
Secret1  == <<"s", "e", "c", "r", "e", "t", "1">>
Roles == {"admin", "user"}

\* prisma/seed.ts: the one seeded record.
SeedUsers ==
  [e \in {AdminEmail} |->
     [id |-> "u1", email |-> AdminEmail, name |-> "Admin", role |-> "admin",
      passwordHash |-> bcrypt_hash(Admin123, SaltRounds)]]

NoClaims == [id |-> "", email |-> <<>>, name |-> "", role |-> ""]

\* prisma.user.findUnique({ where: { email } })
findUnique(db, email) ==
  IF email \in DOMAIN db
  THEN [found |-> TRUE, user |-> db[email]]
  ELSE [found |-> FALSE, user |-> [NoClaims EXCEPT !.email = email]]

\* ---------------------------------------------------------- credentials provider
UserObject(u) == [id |-> u.id, email |-> u.email, name |-> u.name, role |-> u.role]

\* An authorize that raises "user not found" instead of returning null.
authorize_throwsOnMissing(credentials, db, dbUp) ==
  IF ~authorizeSchema(credentials)
  THEN [kind |-> "null", user |-> NoClaims, steps |-> <<"safeParse">>]
  ELSE
    LET looked == findUnique(db, credentials.email.value)
    IN  IF ~dbUp \/ ~looked.found
        THEN [kind |-> "throw", user |-> NoClaims,
              steps |-> <<"safeParse", "findUnique">>]
        ELSE IF ~bcrypt_compare(credentials.password.value, looked.user.passwordHash)
        THEN [kind |-> "null", user |-> NoClaims,
              steps |-> <<"safeParse", "findUnique", "compare">>]
        ELSE [kind |-> "user", user |-> UserObject(looked.user),
              steps |-> <<"safeParse", "findUnique", "compare">>]

\* An authorize that ignores the result of bcrypt.compare.
authorize_skipsCompare(credentials, db, dbUp) ==
  IF ~authorizeSchema(credentials)
  THEN [kind |-> "null", user |-> NoClaims, steps |-> <<"safeParse">>]
  ELSE
    LET looked == findUnique(db, credentials.email.value)
    IN  IF ~dbUp
        THEN [kind |-> "throw", user |-> NoClaims,
              steps |-> <<"safeParse", "findUnique">>]
        ELSE IF ~looked.found
        THEN [kind |-> "null", user |-> NoClaims,
              steps |-> <<"safeParse", "findUnique">>]
        ELSE [kind |-> "user", user |-> UserObject(looked.user),
              steps |-> <<"safeParse", "findUnique", "compare">>]

\* authorize: the user object for the session, null, or a thrown store error.
\* steps lists the calls made, in order.
authorize(credentials, db, dbUp) ==
  IF ~authorizeSchema(credentials)
  THEN [kind |-> "null", user |-> NoClaims, steps |-> <<"safeParse">>]
  ELSE
    LET email    == credentials.email.value
        password == credentials.password.value
        looked   == findUnique(db, email)
    IN  IF ~dbUp
        THEN [kind |-> "throw", user |-> NoClaims,
              steps |-> <<"safeParse", "findUnique">>]
        ELSE IF ~looked.found
        THEN [kind |-> "null", user |-> NoClaims,
              steps |-> <<"safeParse", "findUnique">>]
        ELSE IF ~bcrypt_compare(password, looked.user.passwordHash)
        THEN [kind |-> "null", user |-> NoClaims,
              steps |-> <<"safeParse", "findUnique", "compare">>]
        ELSE [kind |-> "user", user |-> UserObject(looked.user),
              steps |-> <<"safeParse", "findUnique", "compare">>]

\* The token the framework hands to callbacks.jwt on sign in.
defaultToken(user) ==
  [name |-> user.name, email |-> user.email, sub |-> user.id, role |-> "", id |-> ""]

\* signIn("credentials", options): authorize returning null raises the
\* CredentialsSignin AuthError; anything authorize or the token step throws is
\* wrapped in the CallbackRouteError AuthError; on success the session cookie
\* is set and the redirect to redirectTo is raised.
signIn(options, db, dbUp, issuerUp) ==
  LET a == authorize([email |-> options.email, password |-> options.password], db, dbUp)
  IN  CASE a.kind = "throw" ->
             [kind |-> "AuthError", type |-> "CallbackRouteError", redirectTo |-> <<>>,
              cookie |-> NoToken, steps |-> a.steps]
        [] a.kind = "null" ->
             [kind |-> "AuthError", type |-> "CredentialsSignin", redirectTo |-> <<>>,
              cookie |-> NoToken, steps |-> a.steps]
        [] a.kind = "user" /\ ~issuerUp ->
             [kind |-> "AuthError", type |-> "CallbackRouteError", redirectTo |-> <<>>,
              cookie |-> NoToken, steps |-> a.steps \o <<"issue">>]
        [] OTHER ->
             [kind |-> "redirect", type |-> "NEXT_REDIRECT",
              redirectTo |-> options.redirectTo,
              cookie |-> [present |-> TRUE,
                          token |-> jwt(defaultToken(a.user),
                                        [present |-> TRUE, value |-> a.user])],
              steps |-> a.steps \o <<"issue">>]

\* ------------------------------------------------------------ login orchestrator
InvalidCredentialsMessage == "Invalid email or password"
UnknownMessage == "Something went wrong. Please try again."

Returned(message, steps) ==
  [kind |-> "return", error |-> message, redirectTo |-> <<>>,
   cookie |-> NoToken, steps |-> steps]

Thrown(what, redirectTo, cookie, steps) ==
  [kind |-> "throw", error |-> what, redirectTo |-> redirectTo,
   cookie |-> cookie, steps |-> steps]

\* A catch block that handles CredentialsSignin and re-raises the rest.
onAuthError_rethrows(type, steps) ==
  IF type = "CredentialsSignin"
  THEN Returned(InvalidCredentialsMessage, steps)
  ELSE Thrown(type, <<>>, NoToken, steps)

\* The catch block of loginAction on an AuthError.
onAuthError(type, steps) ==
  IF type = "CredentialsSignin"
  THEN Returned(InvalidCredentialsMessage, steps)
  ELSE Returned(UnknownMessage, steps)

\* loginAction(_prevState, formData): what the caller gets (a returned
\* LoginState or a raised error), the cookie set on the way and the calls made.
\* A ZodError of loginSchema.parse is no AuthError and is raised again, as is
\* the redirect signIn raises on success; `return { success: true }` follows a
\* signIn that always raises and is never reached.
loginAction(formData, db, dbUp, issuerUp) ==
  LET data == [email    |-> formData.email,
               password |-> formData.password,
               from     |-> OrElse(formData.from, DefaultLanding)]
  IN  IF ~loginSchema(data)
      THEN Thrown("ZodError", <<>>, NoToken, <<"parse">>)
      ELSE
        LET s == signIn([email |-> data.email, password |-> data.password,
                         redirectTo |-> data.from], db, dbUp, issuerUp)
        IN  IF s.kind = "AuthError"
            THEN onAuthError(s.type, <<"parse">> \o s.steps)
            ELSE Thrown(s.type, s.redirectTo, s.cookie, <<"parse">> \o s.steps)

\* ------------------------------------------------------------------- inputs
QueryTokens == {"x", "=", "&", "%20"}
Queries == SeqsUpTo(QueryTokens, MaxQueryLen)

Paths ==
  { DashboardPrefix,
    <<"/", "dashboard", "/", "reports">>,
    <<"/", "dashboard", "x">>,
    LoginPath,
    <<"/">> }

EmailInputs ==
  { Null, Str(<<>>), Str(<<"admin">>), Str(<<"admin", "@", "example">>),
    Str(AdminEmail), Str(GhostEmail) }

PasswordInputs ==
  { Null, Str(<<>>), Str(<<"a", "d", "m", "i", "n">>), Str(Admin123), Str(Secret1) }

FromInputs ==
  { Null, Str(<<>>), Str(<<"/", "dashboard", "/", "reports">>),
    Str(<<"/", "x">>), Str(<<"https:", "/", "/", "evil.example", "/">>) }

\* --------------------------------------------------------------------- state
VARIABLES
  users,       \* the user table: email -> record
  cookie,      \* the browser's session cookie (the signed token), or NoToken
  issuedFrom,  \* history: the record and the checks behind the cookie's token
  req,         \* the request the browser made last
  resp,        \* the response to it
  hops,        \* redirects followed since the last navigation
  orig,        \* history: the request the guard rejected last
  formFrom,    \* the hidden `from` field of the rendered login form, or Null
  last         \* the last login attempt: inputs' class, outcome, calls made
               \* (seq alternates, so that every attempt changes it)

vars == <<users, cookie, issuedFrom, req, resp, hops, orig, formFrom, last>>

NoReq == [pathname |-> <<>>, search |-> <<>>, auth |-> [present |-> FALSE]]
NoOrig == [present |-> FALSE, pathname |-> <<>>, search |-> <<>>]
NoIssue == [present |-> FALSE]
NoAttempt ==
  [present |-> FALSE, seq |-> 0, class |-> "", fault |-> FALSE, viaForm |-> FALSE,
   kind |-> "", error |-> "", redirectTo |-> <<>>, steps |-> <<>>]

Init ==
  /\ users = SeedUsers
  /\ cookie = NoToken
  /\ issuedFrom = NoIssue
  /\ req = NoReq
  /\ resp = Direct
  /\ hops = 0
  /\ orig = NoOrig
  /\ formFrom = Null
  /\ last = NoAttempt

\* What the inputs are, judged from the inputs and the table alone.
ClassOf(formData, db) ==
  IF ~(zEmail(formData.email) /\ zPasswordMin(formData.password)) THEN "invalid"
  ELSE IF formData.email.value \notin DOMAIN db THEN "nouser"
  ELSE IF ~bcrypt_compare(formData.password.value,
                          db[formData.email.value].passwordHash) THEN "wrongpw"
  ELSE "ok"

\* A collaborator that is down is a fault of the attempt when it is reached.
FaultOf(formData, db, dbUp, issuerUp) ==
  LET c == ClassOf(formData, db)
  IN  c # "invalid" /\ (~dbUp \/ (c = "ok" /\ ~issuerUp))

\* The browser requests `url` with its cookie: the guard answers, and a login page that is
\* served renders the form.
Serve(url) ==
  /\ req' = [pathname |-> url.pathname, search |-> url.search, auth |-> auth(cookie)]
  /\ resp' = handle(req')
  /\ formFrom' = IF resp'.kind # "redirect" /\ url.pathname = LoginPath
                 THEN Str(LoginForm(url.search))
                 ELSE Null

Navigate(p, q) ==
  /\ Serve([pathname |-> p, search |-> q])
  /\ hops' = 0
  /\ orig' = IF resp'.kind = "redirect"
             THEN [present |-> TRUE, pathname |-> p, search |-> q]
             ELSE NoOrig
  /\ last' = NoAttempt
  /\ UNCHANGED <<users, cookie, issuedFrom>>

FollowRedirect ==
  /\ resp.kind = "redirect"
  /\ hops < MaxHops
  /\ Serve(resp.location)
  /\ hops' = hops + 1
  /\ UNCHANGED <<users, cookie, issuedFrom, orig, last>>

\* One call of the server action.
Login(formData, viaForm, dbUp, issuerUp) ==
  LET r == loginAction(formData, users, dbUp, issuerUp)
      class == ClassOf(formData, users)
  IN  /\ last' = [present |-> TRUE, seq |-> 1 - last.seq, class |-> class,
                  fault |-> FaultOf(formData, users, dbUp, issuerUp),
                  viaForm |-> viaForm,
                  kind |-> r.kind, error |-> r.error,
                  redirectTo |-> r.redirectTo, steps |-> r.steps]
      /\ cookie' = IF r.cookie.present THEN r.cookie ELSE cookie
      /\ issuedFrom' = IF r.cookie.present
                       THEN [present |-> TRUE, class |-> class,
                             record |-> findUnique(users, formData.email.value).user]
                       ELSE issuedFrom
      /\ UNCHANGED users

SubmitLoginForm(email, password, dbUp, issuerUp) ==
  /\ formFrom.present
  /\ email.present /\ password.present
  /\ Login([email |-> email, password |-> password, from |-> formFrom],
           TRUE, dbUp, issuerUp)
  /\ UNCHANGED <<req, resp, hops, orig, formFrom>>

\* A POST to the server action that no rendered form produced.
PostLogin(email, password, from, dbUp, issuerUp) ==
  /\ Login([email |-> email, password |-> password, from |-> from],
           FALSE, dbUp, issuerUp)
  /\ req' = NoReq
  /\ resp' = Direct
  /\ hops' = 0
  /\ orig' = NoOrig
  /\ formFrom' = Null

\* signOut(): the session cookie is cleared.
Logout ==
  /\ cookie.present
  /\ cookie' = NoToken
  /\ issuedFrom' = NoIssue
  /\ UNCHANGED <<users, req, resp, hops, orig, formFrom, last>>

\* prisma.user.update({ where: { email }, data }) by an administrator.
UpdateRole(email, role) ==
  /\ email \in DOMAIN users
  /\ users[email].role # role
  /\ users' = [users EXCEPT ![email].role = role]
  /\ UNCHANGED <<cookie, issuedFrom, req, resp, hops, orig, formFrom, last>>

UpdatePassword(email, password) ==
  /\ email \in DOMAIN users
  /\ users[email].passwordHash # bcrypt_hash(password, SaltRounds)
  /\ users' = [users EXCEPT ![email].passwordHash = bcrypt_hash(password, SaltRounds)]
  /\ UNCHANGED <<cookie, issuedFrom, req, resp, hops, orig, formFrom, last>>

\* The login flow: posts to the server action, logout, administration.
NextLogin ==
  \/ \E e \in EmailInputs, pw \in PasswordInputs, f \in FromInputs,
        dbUp \in BOOLEAN, issuerUp \in BOOLEAN :
       PostLogin(e, pw, f, dbUp, issuerUp)
  \/ Logout
  \/ \E e \in {AdminEmail}, r \in Roles : UpdateRole(e, r)
  \/ \E e \in {AdminEmail}, pw \in {Admin123, Secret1} : UpdatePassword(e, pw)

\* The browser's way through the guard: requests, redirects, the login form.
NextGuard ==
  \/ \E p \in Paths, q \in Queries : Navigate(p, q)
  \/ FollowRedirect
  \/ \E e \in {Str(AdminEmail), Str(GhostEmail)}, pw \in {Str(Admin123), Str(Secret1)},
        dbUp \in BOOLEAN, issuerUp \in BOOLEAN :
       SubmitLoginForm(e, pw, dbUp, issuerUp)
  \/ Logout

\* The whole system.  Its two parts share the cookie and the table only, and
\* are checked as SpecLogin and SpecGuard.
Next == NextLogin \/ NextGuard

Spec == Init /\ [][Next]_vars
SpecLogin == Init /\ [][NextLogin]_vars
SpecGuard == Init /\ [][NextGuard]_vars

\* ------------------------------------------------------------------ claims
\* What the caller of loginAction sees.
OutcomeOf(r) == [kind |-> r.kind, error |-> r.error, redirectTo |-> r.redirectTo]

InvalidCredentialsResult ==
  [kind |-> "return", error |-> InvalidCredentialsMessage, redirectTo |-> <<>>]

IsSuccess(r) == r.kind = "throw" /\ r.error = "NEXT_REDIRECT"

ClaimsOf(t) == [id |-> t.id, email |-> t.email, name |-> t.name, role |-> t.role]

FormDatas ==
  {[email |-> e, password |-> pw, from |-> f] :
     e \in EmailInputs, pw \in PasswordInputs, f \in FromInputs}

\* C1: with the store answering, an attempt for an email without a record and
\* an attempt with a wrong password for an existing record give the caller the
\* same result, the returned "Invalid email or password": the last attempt of
\* either kind got it, and so does every input of the other kind.
C1_NoEnumeration ==
  (last.present /\ last.class \in {"nouser", "wrongpw"} /\ ~last.fault) =>
    /\ OutcomeOf(last) = InvalidCredentialsResult
    /\ \A fd \in FormDatas :
         ClassOf(fd, users) \in {"nouser", "wrongpw"} \ {last.class} =>
           OutcomeOf(loginAction(fd, users, TRUE, TRUE)) = OutcomeOf(last)

C1_Witness ==
  /\ last.present /\ last.class = "nouser" /\ ~last.fault
  /\ last.error = InvalidCredentialsMessage
  /\ \E fd \in FormDatas : ClassOf(fd, users) = "wrongpw"

\* C2: an attempt whose email is not address-shaped or whose password is
\* shorter than 6 ends in a returned invalid-input failure (not a raised
\* error) after validation alone.
C2_InvalidInputReturned ==
  (last.present /\ last.class = "invalid") =>
    /\ last.kind = "return"
    /\ last.error \notin {InvalidCredentialsMessage, UnknownMessage}
    /\ last.steps = <<"parse">>

\* C3: a login with a matching record and the right password succeeds; the
\* cookie's token carries the id, email, name and role of the record as it
\* was at issuance; a later change of the table leaves the token as it is.
C3_TokenSnapshot ==
  /\ [](/\ (last.present /\ last.class = "ok" /\ ~last.fault) => IsSuccess(last)
        /\ cookie.present =>
             /\ issuedFrom.present
             /\ ClaimsOf(cookie.token) = ClaimsOf(issuedFrom.record))
  /\ [][/\ (last' # last /\ IsSuccess(last')) =>
             /\ cookie'.present
             /\ issuedFrom'.record = users[issuedFrom'.record.email]
        /\ (users' # users) => cookie' = cookie]_vars

C3_Witness ==
  /\ cookie.present
  /\ cookie.token.role = "admin"
  /\ users[cookie.token.email].role = "user"

\* C4: a session exists only when an attempt passed validation, found the
\* record and had its password verified; an attempt that does not succeed
\* leaves the session and the user table as they were.
C4_OnlyVerifiedIssues ==
  /\ [](cookie.present => (issuedFrom.present /\ issuedFrom.class = "ok"))
  /\ [][(last' # last /\ last'.present /\ ~IsSuccess(last')) =>
          (cookie' = cookie /\ issuedFrom' = issuedFrom /\ users' = users)]_vars

C4_Witness ==
  /\ cookie.present
  /\ last.present /\ last.class = "wrongpw" /\ last.kind = "return"

\* C5: a request to a protected path with a session passes; without one it
\* is redirected to the login path with `from` equal to the requested path,
\* followed by "?" and the request's query string when that is not empty.
RequestedUrl(pathname, search) ==
  pathname \o (IF search # <<>> THEN <<"?">> \o search ELSE <<>>)

C5_FromIsRequestedUrl ==
  config_matcher(req.pathname) =>
    IF req.auth.present
    THEN resp = NextResponse_next
    ELSE /\ resp.kind = "redirect"
         /\ resp.location.pathname = LoginPath
         /\ searchParamsGet(searchParamsParse(resp.location.search), <<"from">>)
              = Str(RequestedUrl(req.pathname, req.search))

\* C6: the guard does not run on the login path: a request for it is served
\* directly, every guard redirect leads to it, and so no redirect follows a
\* redirect.
C6_NoRedirectLoop ==
  /\ hops <= 1
  /\ req.pathname = LoginPath => resp = Direct
  /\ resp.kind = "redirect" =>
       /\ resp.location.pathname = LoginPath
       /\ ~req.auth.present

C6_Witness ==
  /\ hops = 1
  /\ req.pathname = LoginPath
  /\ ~req.auth.present
  /\ resp = Direct

\* C7: the redirect target of a successful login is a path under /dashboard.
C7_RedirectInsideNamespace ==
  (last.present /\ IsSuccess(last)) => startsWith(last.redirectTo, DashboardPrefix)

\* C8: after the guard rejected a request, a successful login through the
\* rendered form redirects to the requested path and query; without a
\* rejected request it redirects to /dashboard/default.
C8_ReturnPathRoundTrip ==
  (last.present /\ last.viaForm /\ IsSuccess(last)) =>
    last.redirectTo = IF orig.present
                      THEN RequestedUrl(orig.pathname, orig.search)
                      ELSE DefaultLanding

\* C9: a validated attempt that reaches a collaborator that is down returns
\* the generic "Something went wrong" failure.
C9_FaultIsUnknown ==
  (last.present /\ last.fault) =>
    OutcomeOf(last) = [kind |-> "return", error |-> UnknownMessage, redirectTo |-> <<>>]

C9_Witness ==
  /\ last.present /\ last.fault /\ last.class = "ok"
  /\ last.error = UnknownMessage

\* C10: a validated attempt for an email without a record still runs the
\* password comparison after the lookup, like a wrong-password attempt.
C10_NoShortCircuit ==
  (last.present /\ last.class = "nouser" /\ ~last.fault) =>
    last.steps = <<"parse", "safeParse", "findUnique", "compare">>

====
